---- MODULE Spec2Model ----
(***************************************************************************)
(* Weather dashboard (src/app/page.tsx): the useWeatherData hook, the      *)
(* transform of the columnar payload, the date-range validation gate of   *)
(* App.handleApplyFilter and the ChartCard view of the fetch state.       *)
(*                                                                         *)
(* JavaScript values that may be null/undefined are modelled as options:  *)
(* <<>> is null/undefined, <<v>> is the value v.  A date string is the     *)
(* option of a day number: <<>> is the empty string of a cleared           *)
(* <input type="date">, <<d>> the ISO string of day d.                     *)
(***************************************************************************)
EXTENDS Integers, Sequences, FiniteSets, TLC

VARIABLES data, loading, error, startDate, endDate, dateRangeError,
          effectPending, calls

vars == <<data, loading, error, startDate, endDate, dateRangeError,
          effectPending, calls>>

fetchState == <<data, loading, error>>

(* ------------------------------ bounds -------------------------------- *)

\* Day number of the local clock's "today".
Today == 7

\* Besides the two default dates the user can pick the MaxBack days before today.
MaxBack == 0

\* Overlapping fetchData calls that may be in flight at once.
MaxInFlight == 2

\* Longest array of a payload handed to transformWeatherData.
MaxLen == 2

(* --------------------------- program constants ------------------------ *)

\* getDateStringDaysAgo(6): the default range is the 7 days ending today.
DefaultSpan == 6

None == <<>>

Some(v) == <<v>>

RANGE_ERROR == "Start date cannot be after end date."

UNKNOWN_ERROR == "An unknown error occurred."

(* ------------------------------ dates --------------------------------- *)

getTodayDateString == Some(Today)

getDateStringDaysAgo(daysAgo) == Some(Today - daysAgo)

\* What the two date inputs can hold: a picked day, or "" once cleared.
DateStrings ==
    {None, getDateStringDaysAgo(DefaultSpan)}
        \cup {Some(d) : d \in (Today - MaxBack)..Today}

\* new Date(s): an Invalid Date (time NaN) for the empty string.
NewDate(dateString) ==
    IF dateString = None
    THEN [valid |-> FALSE, time |-> 0]
    ELSE [valid |-> TRUE, time |-> dateString[1]]

\* a <= b on Date objects: compares the time values, false when either is NaN.
DateLe(a, b) == a.valid /\ b.valid /\ a.time <= b.time

isValidDateRange(start, end) == DateLe(NewDate(start), NewDate(end))

(* ---------------------------- transform ------------------------------- *)

\* arr[i] of a JavaScript array (i counted from 1 here): undefined out of range.
At(arr, i) == IF i \in DOMAIN arr THEN Some(arr[i]) ELSE None

\* The row with the minimum and maximum columns taken from each other's array.
ChartDataPointSwapped(daily, i) ==
    [date          |-> At(daily.time, i),
     minTemp       |-> At(daily.temperature_2m_max, i),
     maxTemp       |-> At(daily.temperature_2m_min, i),
     precipitation |-> At(daily.precipitation_sum, i)]

\* One pushed row: the entries at index i of the four arrays.
ChartDataPoint(daily, i) ==
    [date          |-> At(daily.time, i),
     minTemp       |-> At(daily.temperature_2m_min, i),
     maxTemp       |-> At(daily.temperature_2m_max, i),
     precipitation |-> At(daily.precipitation_sum, i)]

\* The loop of transformWeatherData: the rows pushed for indexes i..length.
RECURSIVE TransformFrom(_, _)
TransformFrom(daily, i) ==
    IF i > Len(daily.time)
    THEN <<>>
    ELSE <<ChartDataPoint(daily, i)>> \o TransformFrom(daily, i + 1)

transformWeatherData(daily) == TransformFrom(daily, 1)

(* ------------------------ the upstream service ------------------------ *)

Readings == {0, 1}

SeqsUpTo(S, n) == UNION {[1..k -> S] : k \in 0..n}

\* Every payload with arrays of at most MaxLen entries, equal length or not.
Payloads ==
    [time               : SeqsUpTo({Some(Today - 1), Some(Today)}, MaxLen),
     temperature_2m_max : SeqsUpTo(Readings, MaxLen),
     temperature_2m_min : SeqsUpTo(Readings, MaxLen),
     precipitation_sum  : SeqsUpTo(Readings, MaxLen)]

EqualLength(daily) ==
    /\ Len(daily.temperature_2m_max) = Len(daily.time)
    /\ Len(daily.temperature_2m_min) = Len(daily.time)
    /\ Len(daily.precipitation_sum) = Len(daily.time)

\* The daily block the service returns for start..end: one entry per day.
WeatherFor(start, end) ==
    LET n == end[1] - start[1] + 1
        day(i) == start[1] + i - 1
    IN  [time               |-> [i \in 1..n |-> Some(day(i))],
         temperature_2m_max |-> [i \in 1..n |-> 20 + day(i)],
         temperature_2m_min |-> [i \in 1..n |-> 10 + day(i)],
         precipitation_sum  |-> [i \in 1..n |-> day(i) % 2]]

\* A response body: text that is no JSON, JSON null, or a JSON object with an
\* optional reason and an optional daily block.
Garbage == [kind |-> "garbage", reason |-> None, daily |-> None]

JsonNull == [kind |-> "null", reason |-> None, daily |-> None]

JsonObject(reason, daily) == [kind |-> "object", reason |-> reason, daily |-> daily]

ErrorBodies ==
    {Garbage, JsonNull}
        \cup {JsonObject(r, None) : r \in {None, Some(""), Some("bad coordinates")}}

WeatherBody(daily) == JsonObject(None, Some(daily))

OkBodies(call) ==
    {Garbage, JsonObject(None, None), WeatherBody(WeatherFor(call.start, call.end))}

PayloadBodies == {WeatherBody(p) : p \in Payloads}

Pending == [ok |-> FALSE, status |-> 0, statusText |-> ""]

Responses ==
    {[ok |-> TRUE,  status |-> 200, statusText |-> "OK"],
     [ok |-> FALSE, status |-> 400, statusText |-> "Bad Request"],
     [ok |-> FALSE, status |-> 500, statusText |-> "Internal Server Error"]}

\* What a rejected promise or a throw can carry: an Error with its message,
\* or a value that is no Error.
JsError(message) == [isError |-> TRUE, message |-> message]

Thrown == {JsError("Failed to fetch"), JsError(""), [isError |-> FALSE, message |-> "boom"]}

SyntaxError == JsError("Unexpected token < in JSON at position 0")

TypeError == JsError("Cannot read properties of undefined (reading 'time')")

(* --------------------------- useWeatherData --------------------------- *)

RemoveAt(s, i) == SubSeq(s, 1, i - 1) \o SubSeq(s, i + 1, Len(s))

\* fetchData up to its first await: the reset of the three states, and the
\* request now in flight.
fetchData(start, end) ==
    /\ Len(calls) < MaxInFlight
    /\ loading' = TRUE
    /\ error' = None
    /\ data' = None
    /\ calls' = Append(calls, [start |-> start, end |-> end, pc |-> "fetch",
                               response |-> Pending])

\* catch (err): the stored message.
CatchMessage(err) == IF err.isError THEN err.message ELSE UNKNOWN_ERROR

\* catch and finally: the call ends with err thrown inside the try block.
Catch(c, err) ==
    /\ error' = Some(CatchMessage(err))
    /\ loading' = FALSE
    /\ calls' = RemoveAt(calls, c)
    /\ UNCHANGED data

\* await fetch(apiUrl) rejects.
FetchRejects(c, err) ==
    /\ calls[c].pc = "fetch"
    /\ Catch(c, err)
    /\ UNCHANGED <<startDate, endDate, dateRangeError, effectPending>>

\* await fetch(apiUrl) resolves: the call goes on to await response.json().
FetchResolves(c, response) ==
    /\ calls[c].pc = "fetch"
    /\ calls' = [calls EXCEPT ![c].pc = "json", ![c].response = response]
    /\ UNCHANGED <<data, loading, error, startDate, endDate, dateRangeError,
                   effectPending>>

\* errorData && errorData.reason
HasReason(body) ==
    body.kind = "object" /\ body.reason # None /\ body.reason[1] # ""

\* The message of the Error thrown in the !response.ok branch.
StatusErrorMessage(response, body) ==
    IF body.kind # "garbage" /\ HasReason(body)
    THEN "API Error: " \o body.reason[1]
    ELSE "Failed to fetch weather data: " \o ToString(response.status)
             \o " " \o response.statusText

\* What the try block throws once the body of an ok response is read, if it
\* does: response.json() rejects, or transformWeatherData reads daily.time of
\* an object without a daily block.
OkBodyThrows(body) ==
    IF body.kind = "garbage" THEN Some(SyntaxError)
    ELSE IF body.daily = None THEN Some(TypeError)
    ELSE None

\* What the try block throws after await fetch resolved with response and the
\* body read is body; None when it runs through to setData.
BodyThrows(response, body) ==
    IF ~response.ok
    THEN Some(JsError(StatusErrorMessage(response, body)))
    ELSE OkBodyThrows(body)

\* await response.json() settles and the call runs to its end.
BodyArrives(c, body) ==
    /\ calls[c].pc = "json"
    /\ IF BodyThrows(calls[c].response, body) # None
       THEN Catch(c, BodyThrows(calls[c].response, body)[1])
       ELSE /\ data' = Some(transformWeatherData(body.daily[1]))
            /\ loading' = FALSE
            /\ calls' = RemoveAt(calls, c)
            /\ UNCHANGED error
    /\ UNCHANGED <<startDate, endDate, dateRangeError, effectPending>>

Bodies(call) == IF call.response.ok THEN OkBodies(call) ELSE ErrorBodies

(* -------------------------------- App --------------------------------- *)

\* The handler without the return of its invalid branch: it falls through to
\* the clearing of the range error and the fetch.
handleApplyFilterNoReturn ==
    /\ dateRangeError' = None
    /\ fetchData(startDate, endDate)

\* The handler without setDateRangeError(null) before the fetch.
handleApplyFilterKeepsError ==
    IF ~isValidDateRange(startDate, endDate)
    THEN /\ dateRangeError' = Some(RANGE_ERROR)
         /\ UNCHANGED <<data, loading, error, calls>>
    ELSE /\ UNCHANGED dateRangeError
         /\ fetchData(startDate, endDate)

handleApplyFilter ==
    IF ~isValidDateRange(startDate, endDate)
    THEN /\ dateRangeError' = Some(RANGE_ERROR)
         /\ UNCHANGED <<data, loading, error, calls>>
    ELSE /\ dateRangeError' = None
         /\ fetchData(startDate, endDate)

\* useEffect(() => handleApplyFilter(), [handleApplyFilter]): at mount and
\* after every render in which startDate or endDate changed.
RunEffect ==
    /\ effectPending
    /\ effectPending' = FALSE
    /\ handleApplyFilter
    /\ UNCHANGED <<startDate, endDate>>

\* The Apply button, disabled while the range is invalid.
ClickApply ==
    /\ isValidDateRange(startDate, endDate)
    /\ handleApplyFilter
    /\ UNCHANGED <<startDate, endDate, effectPending>>

\* onStartDateChange = setStartDate; the pending effect of the previous
\* render is flushed before the next render.
SetStartDate(date) ==
    /\ ~effectPending
    /\ date # startDate
    /\ startDate' = date
    /\ effectPending' = TRUE
    /\ UNCHANGED <<data, loading, error, endDate, dateRangeError, calls>>

SetEndDate(date) ==
    /\ ~effectPending
    /\ date # endDate
    /\ endDate' = date
    /\ effectPending' = TRUE
    /\ UNCHANGED <<data, loading, error, startDate, dateRangeError, calls>>

\* What a ChartCard shows.
ChartCard(isLoading, err, children) ==
    IF isLoading THEN "spinner"
    ELSE IF err # None /\ err[1] # "" THEN "error"
    ELSE children

\* {data && <TemperatureLineChart data={data} />}
Children == IF data # None THEN "chart" ELSE "empty"

Rendered == ChartCard(loading, error, Children)

(* --------------------------- specification ---------------------------- *)

Init ==
    /\ data = None
    /\ loading = FALSE
    /\ error = None
    /\ startDate = getDateStringDaysAgo(DefaultSpan)
    /\ endDate = getTodayDateString
    /\ dateRangeError = None
    /\ effectPending = TRUE
    /\ calls = <<>>

Next ==
    \/ RunEffect
    \/ ClickApply
    \/ \E d \in DateStrings : SetStartDate(d)
    \/ \E d \in DateStrings : SetEndDate(d)
    \/ \E c \in DOMAIN calls, err \in Thrown : FetchRejects(c, err)
    \/ \E c \in DOMAIN calls, r \in Responses : FetchResolves(c, r)
    \/ \E c \in DOMAIN calls : \E b \in Bodies(calls[c]) : BodyArrives(c, b)

Spec == Init /\ [][Next]_vars

\* The transform on its own: the mount effect's fetch has resolved ok with a
\* response whose body carries any payload, and the body is read.
TransformInit ==
    /\ data = None
    /\ loading = TRUE
    /\ error = None
    /\ startDate = getDateStringDaysAgo(DefaultSpan)
    /\ endDate = getTodayDateString
    /\ dateRangeError = None
    /\ effectPending = FALSE
    /\ \E b \in PayloadBodies :
          calls = <<[start |-> startDate, end |-> endDate, pc |-> "json",
                     response |-> [ok |-> TRUE, status |-> 200,
                                   statusText |-> "OK", body |-> b]]>>

TransformNext == \E c \in DOMAIN calls : BodyArrives(c, calls[c].response.body)

TransformSpec == TransformInit /\ [][TransformNext]_vars

(* ------------------------------ claims -------------------------------- *)

Present(x) == x # None

\* A step in which some fetchData call runs to its end.
Settles == Len(calls') < Len(calls)

\* start and end both parse and start is the later day.
StartAfterEnd(start, end) ==
    /\ NewDate(start).valid
    /\ NewDate(end).valid
    /\ NewDate(start).time > NewDate(end).time

\* C1: whenever a fetchData call settles, loading is false and exactly one of
\* data and error is populated.
C1_SettledExactlyOne ==
    [][Settles => loading' = FALSE /\ (Present(data') # Present(error'))]_vars

\* C2: data and error are never both present.
C2_AtMostOne == ~(Present(data) /\ Present(error))

\* C3: the handler run with start after end sets dateRangeError and leaves
\* data, loading, error and the calls in flight as they were; a fetch is
\* issued only for a valid range, for the selected dates, with dateRangeError
\* cleared.
C3_RangeGate ==
    [][/\ (effectPending /\ ~effectPending' /\ StartAfterEnd(startDate, endDate))
            => /\ dateRangeError' = Some(RANGE_ERROR)
               /\ UNCHANGED <<data, loading, error, calls>>
       /\ (Len(calls') > Len(calls))
            => /\ isValidDateRange(startDate, endDate)
               /\ dateRangeError' = None
               /\ calls'[Len(calls')].start = startDate
               /\ calls'[Len(calls')].end = endDate]_vars

\* C3 witness: the effect has run on a range with start after end, the range
\* error is set and the records of the earlier fetch are still there.
C3_Witness ==
    /\ ~effectPending
    /\ StartAfterEnd(startDate, endDate)
    /\ dateRangeError = Some(RANGE_ERROR)
    /\ Present(data)
    /\ calls = <<>>

\* The fetch state a call leaves when it runs alone, from reset to its end.
SettledAlone(thrown, body) ==
    IF thrown # None
    THEN <<None, FALSE, Some(CatchMessage(thrown[1]))>>
    ELSE <<Some(transformWeatherData(body.daily[1])), FALSE, None>>

\* C4: once the last call in flight settles, the fetch state is the one that
\* call determines.
C4_LastResolvedWins ==
    [][\A c \in DOMAIN calls :
         /\ \A err \in Thrown :
              FetchRejects(c, err) /\ calls' = <<>>
                  => fetchState' = SettledAlone(Some(err), Garbage)
         /\ \A b \in Bodies(calls[c]) :
              BodyArrives(c, b) /\ calls' = <<>>
                  => fetchState' = SettledAlone(BodyThrows(calls[c].response, b), b)]_vars

\* C5: while a request has received no response, loading is true.
C5_HungKeepsLoading ==
    \A c \in DOMAIN calls : calls[c].pc = "fetch" => loading

\* C6: a failing status with a parsed body that carries a (non-empty) reason
\* stores "API Error: " + reason; with a body that does not parse or has no
\* reason field it stores the status line message; data stays absent.
C6_StatusErrorMessage ==
    [][\A c \in DOMAIN calls : \A b \in ErrorBodies :
         (~calls[c].response.ok /\ BodyArrives(c, b))
             => /\ data' = None
                /\ (b.kind = "object" /\ b.reason \notin {None, Some("")})
                     => error' = Some("API Error: " \o b.reason[1])
                /\ (b.kind = "garbage" \/ b.reason = None)
                     => error' = Some("Failed to fetch weather data: "
                                        \o ToString(calls[c].response.status)
                                        \o " " \o calls[c].response.statusText)]_vars

\* C7: whenever a call settles with a failure, the stored message is not
\* empty: the failure's description, or the fallback when it has none.
C7_DescriptiveMessage ==
    [][\A c \in DOMAIN calls :
         /\ \A err \in Thrown :
              FetchRejects(c, err)
                  => /\ Present(error') /\ error'[1] # ""
                     /\ error'[1] = IF err.isError /\ err.message # ""
                                    THEN err.message ELSE UNKNOWN_ERROR
         /\ \A b \in Bodies(calls[c]) :
              (BodyArrives(c, b) /\ BodyThrows(calls[c].response, b) # None)
                  => /\ Present(error') /\ error'[1] # ""
                     /\ error'[1] = BodyThrows(calls[c].response, b)[1].message]_vars

\* Record i of the result pairs the entries at index i of the four arrays.
ExpectedRecords(daily) ==
    [i \in 1..Len(daily.time) |->
        [date          |-> Some(daily.time[i]),
         minTemp       |-> Some(daily.temperature_2m_min[i]),
         maxTemp       |-> Some(daily.temperature_2m_max[i]),
         precipitation |-> Some(daily.precipitation_sum[i])]]

\* C8: for a payload whose four arrays have the same length N, the records
\* stored are exactly N, in source order, record i pairing the entries at i.
C8_TransformPairs ==
    [][\A c \in DOMAIN calls :
         (calls[c].pc = "json" /\ calls' = RemoveAt(calls, c)
            /\ EqualLength(calls[c].response.body.daily[1]))
             => /\ data' = Some(ExpectedRecords(calls[c].response.body.daily[1]))
                /\ Len(data'[1]) = Len(calls[c].response.body.daily[1].time)]_vars

\* C8 witness: the transform has run on a payload of MaxLen days whose arrays
\* are all of that length, and the first and last records differ.
C8_Witness ==
    /\ calls = <<>>
    /\ Present(data)
    /\ Len(data[1]) = MaxLen
    /\ \A i \in 1..MaxLen :
         None \notin {data[1][i].minTemp, data[1][i].maxTemp, data[1][i].precipitation}
    /\ data[1][1].minTemp # data[1][1].maxTemp
    /\ data[1][1] # data[1][MaxLen]

\* C9 (its last clause): a card does not render the chart of a load's data
\* while a load issued after it is still in flight.
C9_NoStaleChart ==
    [][\A c \in DOMAIN calls : \A b \in Bodies(calls[c]) :
         (BodyArrives(c, b) /\ BodyThrows(calls[c].response, b) = None
            /\ c < Len(calls))
             => Rendered' # "chart"]_vars

\* C10 as first stated: once the effect has run, dateRangeError is set
\* exactly when start is after end.
C10_ErrorIffStartAfterEnd ==
    ~effectPending
        => (Present(dateRangeError) <=> StartAfterEnd(startDate, endDate))

\* C10 amended: every change of a date leaves the effect pending; the effect
\* issues a fetch for the selected dates when isValidDateRange holds and none
\* otherwise; and once it has run, dateRangeError is set exactly when
\* isValidDateRange is false (start after end, or a date that does not parse).
C10_ErrorIffInvalid ==
    [][/\ ~effectPending'
            => (Present(dateRangeError') <=> ~isValidDateRange(startDate', endDate'))
       /\ (startDate' # startDate \/ endDate' # endDate) => effectPending'
       /\ (effectPending /\ ~effectPending')
            => IF isValidDateRange(startDate, endDate)
               THEN calls' = Append(calls, [start |-> startDate, end |-> endDate,
                                            pc |-> "fetch", response |-> Pending])
               ELSE calls' = calls]_vars

\* C10 witness: the start date was cleared, the effect has run, the range
\* error is set and no fetch was issued.
C10_Witness ==
    /\ ~effectPending
    /\ startDate = None
    /\ endDate # None
    /\ dateRangeError = Some(RANGE_ERROR)
    /\ calls = <<>>

====
